---- MODULE Spec2Model ----
(***************************************************************************)
(* The Stage 1 cache of build-your-own-lru-cache and its command loop      *)
(* (solutions/python/01-jq3/code/app/main.py).                             *)
(*                                                                         *)
(* Python strings are sequences of one-character strings, so that strip,   *)
(* split and int are computed character by character.  What print writes   *)
(* to stdout is kept as a TLA+ string (Text of the characters printed).    *)
(* Python's None is None where an object may stand and NoneStr where a     *)
(* str may stand (TLC compares only values of one shape); no object and    *)
(* no string equals it.                                                     *)
(***************************************************************************)
EXTENDS Integers, Sequences, FiniteSets

VARIABLES
    cache,      \* main's local `cache`: None or an LRUCache object
    pc,         \* "loop" (reading stdin), "eof" (loop ended), or the name of
                \* the exception that left main uncaught
    stdin,      \* the lines of a prepared input file (<<>> when the input is
                \* typed interactively)
    nread,      \* how many lines of stdin the loop has read
    line,       \* the raw line read by the last iteration of the loop
    out,        \* the lines that iteration printed to stdout
    initDone,   \* history: a well-formed INIT line has been read
    initCap,    \* history: the capacity on the most recent such line
    lastPut,    \* history: key -> value of the latest well-formed PUT line
                \* for that key read since the most recent INIT
    prevPut     \* history: <<key, value>> when the line read before `line`
                \* was such a PUT, <<>> otherwise

vars == <<cache, pc, stdin, nread, line, out, initDone, initCap, lastPut, prevPut>>

---------------------------------------------------------------------------
(* Bounds of the model *)

MaxCap == 3      \* INIT capacities 1..MaxCap are tried
NumKeys == 3     \* number of distinct keys on the interactive input

---------------------------------------------------------------------------
(* Python values *)

None == [py |-> "None"]

(* None as a value of type `str | None`: not a sequence of characters *)
NoneStr == <<"None">>

Whitespace == {" ", "\t", "\n", "\r"}

DigitChars == <<"0", "1", "2", "3", "4", "5", "6", "7", "8", "9">>

RECURSIVE Text(_)
(* the characters of s as one TLA+ string: what stdout shows for s *)
Text(s) == IF s = <<>> THEN "" ELSE Head(s) \o Text(Tail(s))

RECURSIVE str(_)
(* str(n) of a Python int *)
str(n) ==
    IF n < 0 THEN <<"-">> \o str(0 - n)
    ELSE IF n < 10 THEN <<DigitChars[n + 1]>>
    ELSE Append(str(n \div 10), DigitChars[(n % 10) + 1])

RECURSIVE lstrip(_)
lstrip(s) ==
    IF s # <<>> /\ Head(s) \in Whitespace THEN lstrip(Tail(s)) ELSE s

RECURSIVE rstrip(_)
rstrip(s) ==
    IF s # <<>> /\ s[Len(s)] \in Whitespace
    THEN rstrip(SubSeq(s, 1, Len(s) - 1)) ELSE s

(* str.strip() *)
strip(s) == rstrip(lstrip(s))

RECURSIVE WordLen(_)
(* length of the leading run of non-whitespace characters of s *)
WordLen(s) ==
    IF s = <<>> \/ Head(s) \in Whitespace THEN 0 ELSE 1 + WordLen(Tail(s))

RECURSIVE split(_, _)
(* str.split(maxsplit=maxsplit) with no separator: words separated by runs *)
(* of whitespace; after maxsplit splits the rest of the string, leading    *)
(* whitespace removed, is the last item.  maxsplit = -1 means no limit.    *)
split(s, maxsplit) ==
    LET t == lstrip(s)
        n == WordLen(t)
    IN  IF t = <<>> THEN <<>>
        ELSE IF maxsplit = 0 THEN <<t>>
        ELSE <<SubSeq(t, 1, n)>>
             \o split(SubSeq(t, n + 1, Len(t)),
                      IF maxsplit < 0 THEN maxsplit ELSE maxsplit - 1)

DigitValue(c) == CHOOSE d \in 0..9 : DigitChars[d + 1] = c

IsDigit(c) == \E d \in 0..9 : DigitChars[d + 1] = c

RECURSIVE DigitsValue(_)
DigitsValue(s) ==
    IF s = <<>> THEN 0
    ELSE 10 * DigitsValue(SubSeq(s, 1, Len(s) - 1)) + DigitValue(s[Len(s)])

(* the unsigned part of an int literal: one or more decimal digits *)
IsDigits(s) == s # <<>> /\ \A i \in 1..Len(s) : IsDigit(s[i])

(* int(s) succeeds: an optional sign followed by decimal digits (the inputs *)
(* of this model hold no underscore and no non-ASCII digit)                *)
IntParses(s) ==
    /\ s # <<>>
    /\ IF Head(s) \in {"+", "-"} THEN IsDigits(Tail(s)) ELSE IsDigits(s)

(* int(s) where IntParses(s); otherwise int raises ValueError *)
int(s) ==
    IF Head(s) = "-" THEN 0 - DigitsValue(Tail(s))
    ELSE IF Head(s) = "+" THEN DigitsValue(Tail(s))
    ELSE DigitsValue(s)

---------------------------------------------------------------------------
(* class LRUCache *)

EmptyDict == [k \in {} |-> NoneStr]

(* d[key] = value of a Python dict *)
DictSet(d, key, value) ==
    [k \in DOMAIN d \cup {key} |-> IF k = key THEN value ELSE d[k]]

(* d.get(key): the value, or None when key is not in d *)
DictGet(d, key) == IF key \in DOMAIN d THEN d[key] ELSE NoneStr

(* LRUCache.__init__ *)
LRUCache(capacity) == [capacity |-> capacity, cache |-> EmptyDict]

(* get with a default: self.cache.get(key, "") *)
get_Default(self, key) ==
    IF key \in DOMAIN self.cache THEN self.cache[key] ELSE <<>>

(* LRUCache.get *)
get(self, key) == DictGet(self.cache, key)

(* put that enforces the capacity by refusing a new key when full *)
put_Bounded(self, key, value) ==
    IF key \notin DOMAIN self.cache
         /\ Cardinality(DOMAIN self.cache) >= self.capacity
    THEN self
    ELSE [self EXCEPT !.cache = DictSet(self.cache, key, value)]

(* put that keeps the first value of a key: self.cache.setdefault(key, value) *)
put_KeepFirst(self, key, value) ==
    IF key \in DOMAIN self.cache THEN self
    ELSE [self EXCEPT !.cache = DictSet(self.cache, key, value)]

(* put that deletes a present key and fails to store it again *)
put_DropOnUpdate(self, key, value) ==
    IF key \in DOMAIN self.cache
    THEN [self EXCEPT !.cache = [k \in DOMAIN self.cache \ {key} |-> self.cache[k]]]
    ELSE [self EXCEPT !.cache = DictSet(self.cache, key, value)]

(* LRUCache.put: the object after the call *)
put(self, key, value) ==
    [self EXCEPT !.cache = DictSet(self.cache, key, value)]

(* size that reports the capacity: return self.capacity *)
size_Capacity(self) == self.capacity

(* size that counts one too many: len(self.cache) + 1 *)
size_OffByOne(self) == Cardinality(DOMAIN self.cache) + 1

(* LRUCache.size *)
size(self) == Cardinality(DOMAIN self.cache)

---------------------------------------------------------------------------
(* The input: lines of standard input, as sys.stdin yields them *)

KeyPool == <<"a", "b", "c", "d", "e", "f", "g">>

(* the keys typed on the interactive input *)
Keys == {<<KeyPool[i]>> : i \in 1..NumKeys}

(* values: plain, the text NULL, and one with a space in it *)
Values == {<<"1">>, <<"N", "U", "L", "L">>, <<"x", " ", "y">>}

INIT == <<"I", "N", "I", "T">>
PUT == <<"P", "U", "T">>
GET == <<"G", "E", "T">>
SIZE == <<"S", "I", "Z", "E">>

SP == <<" ">>
NL == <<"\n">>

InitLine(tok) == INIT \o SP \o tok \o NL
PutLine(key, value) == PUT \o SP \o key \o SP \o value \o NL
GetLine(key) == GET \o SP \o key \o NL
SizeLine == SIZE \o NL
SizeArgLine == SIZE \o SP \o <<"n", "o", "w">> \o NL

(* the same commands typed with other spacing *)
PutLinePadded(key, value) ==
    <<" ">> \o PUT \o <<"\t">> \o key \o <<" ", " ">> \o value \o <<" ">> \o NL
GetLinePadded(key) == <<"\t">> \o GET \o <<" ", " ">> \o key \o <<" ">> \o NL

(* every way this input writes PUT key value, resp. GET key *)
PutForms(key, value) == {PutLine(key, value), PutLinePadded(key, value)}
GetForms(key) == {GetLine(key), GetLinePadded(key)}

(* capacities INIT is given: 1..MaxCap, and a negative one *)
Capacities == (1..MaxCap) \cup {-1}

InitLines == {InitLine(str(n)) : n \in Capacities}

PutLines ==
    {PutLine(k, v) : k \in Keys, v \in Values}
      \cup {PutLinePadded(<<KeyPool[1]>>, <<"x", " ", "y">>)}

GetLines == {GetLine(k) : k \in Keys} \cup {GetLinePadded(<<KeyPool[1]>>)}

(* lines with an argument missing or malformed *)
BadLines ==
    { INIT \o NL,                                  \* INIT without capacity
      InitLine(<<"x">>),                           \* INIT x
      PUT \o NL,                                   \* PUT without key
      PUT \o SP \o <<KeyPool[1]>> \o NL,           \* PUT a, without value
      GET \o NL }                                  \* GET without key

UnknownLines == { <<"D", "E", "L">> \o SP \o <<KeyPool[1]>> \o NL,
                  <<"g", "e", "t">> \o SP \o <<KeyPool[1]>> \o NL }

BlankLines == { NL, <<" ", "\t">> \o NL }

Lines ==
    InitLines \cup PutLines \cup GetLines \cup {SizeLine, SizeArgLine}
      \cup BadLines \cup UnknownLines \cup BlankLines

---------------------------------------------------------------------------
(* Prepared inputs: whole sessions fed to the program from a file *)

(* the keys of the prepared sessions: one more than the largest capacity *)
ScriptKeys == {<<KeyPool[i]>> : i \in 1..(MaxCap + 1)}

(* the sequences of n pairwise distinct keys *)
DistinctKeys(n) ==
    {ks \in [1..n -> ScriptKeys] : \A i, j \in 1..n : i # j => ks[i] # ks[j]}

(* INIT n, then PUT ks[i] i for each of the n+1 keys in order, then GET of *)
(* each key in the same order                                             *)
FillScript(n, ks) ==
    <<InitLine(str(n))>>
      \o [i \in 1..(n + 1) |-> PutLine(ks[i], str(i))]
      \o [i \in 1..(n + 1) |-> GetLine(ks[i])]

FillScripts ==
    UNION {{FillScript(n, ks) : ks \in DistinctKeys(n + 1)} : n \in 1..MaxCap}

(* INIT n, PUT x 1, PUT y 2, GET x, PUT z 3, GET y, GET z, SIZE *)
TouchScript(n, x, y, z) ==
    << InitLine(str(n)), PutLine(x, <<"1">>), PutLine(y, <<"2">>), GetLine(x),
       PutLine(z, <<"3">>), GetLine(y), GetLine(z), SizeLine >>

TouchScripts ==
    {TouchScript(n, x, y, z) : n \in 1..MaxCap, x \in Keys, y \in Keys, z \in Keys}

(* every two lines of the interactive input, one after the other *)
PairScripts == {<<l1, l2>> : l1 \in Lines, l2 \in Lines}

Scripts == FillScripts \cup TouchScripts \cup PairScripts

---------------------------------------------------------------------------
(* The history of the session, told from the input alone *)

(* the keys and values any input of this model can name *)
AllKeys == {<<KeyPool[i]>> : i \in 1..Len(KeyPool)}
AllValues == Values \cup {str(i) : i \in 1..Len(KeyPool)}

(* l is a well-formed INIT line, for capacity n *)
IsInitOf(l, n) == l = InitLine(str(n))
IsInit(l) == \E n \in Capacities : IsInitOf(l, n)

(* l is a well-formed PUT of value under key *)
IsPut(l, key, value) == l \in PutForms(key, value)

(* l is a well-formed GET of key *)
IsGet(l, key) == l \in GetForms(key)

(* the key and value a well-formed PUT line l names, <<>> for other lines *)
PutOf(l) ==
    IF \E k \in AllKeys, v \in AllValues : IsPut(l, k, v)
    THEN CHOOSE kv \in AllKeys \X AllValues : IsPut(l, kv[1], kv[2])
    ELSE <<>>

(* the lines any input of this model holds, and what each of them asks *)
AllLines == Lines \cup UNION {{sc[i] : i \in 1..Len(sc)} : sc \in Scripts}
InitAsked == [l \in AllLines |-> IsInit(l)]
CapAsked ==
    [l \in AllLines |->
        IF IsInit(l) THEN CHOOSE n \in Capacities : IsInitOf(l, n) ELSE 0]
PutAsked == [l \in AllLines |-> PutOf(l)]

(* the key a well-formed GET line l names, <<>> for other lines *)
GetOf(l) ==
    IF \E k \in AllKeys : IsGet(l, k)
    THEN CHOOSE k \in AllKeys : IsGet(l, k)
    ELSE <<>>

GetKeyAsked == [l \in AllLines |-> GetOf(l)]

(* the PUT that `line` asked of an initialized session, <<>> if none *)
JustPut == IF initDone /\ line \in AllLines THEN PutAsked[line] ELSE <<>>

History(l) ==
    /\ initDone' = (initDone \/ InitAsked[l])
    /\ initCap' = IF InitAsked[l] THEN CapAsked[l] ELSE initCap
    /\ lastPut' =
         IF InitAsked[l] THEN EmptyDict
         ELSE IF initDone /\ PutAsked[l] # <<>>
         THEN DictSet(lastPut, PutAsked[l][1], PutAsked[l][2])
         ELSE lastPut
    /\ prevPut' = JustPut

---------------------------------------------------------------------------
(* main(): one action per branch of the loop body, for the line l read *)

ERR_NOT_INIT == "ERROR: Cache not initialized"

(* line = line.strip() and parts = line.split(maxsplit=2), computed once *)
(* for each line of the input                                             *)
Stripped == [l \in AllLines |-> strip(l)]
Parts == [l \in AllLines |-> split(strip(l), 2)]

stripped(l) == Stripped[l]
parts(l) == Parts[l]

(* command = parts[0] *)
command(l) == parts(l)[1]

(* an uncaught exception ends main: nothing more is read or printed *)
Raise(exception) ==
    /\ pc' = exception
    /\ out' = <<>>
    /\ UNCHANGED cache

(* print(text); the loop goes on to the next line *)
Emit(text) ==
    /\ out' = <<text>>
    /\ pc' = pc

(* if not line: continue *)
Blank(l) ==
    /\ stripped(l) = <<>>
    /\ out' = <<>>
    /\ UNCHANGED <<cache, pc>>

(* INIT that creates the cache only once: if cache is None: cache = ... *)
Init_KeepExisting(l) ==
    /\ stripped(l) # <<>>
    /\ command(l) = INIT
    /\ IF Len(parts(l)) < 2
       THEN Raise("IndexError")
       ELSE IF ~IntParses(parts(l)[2])
       THEN Raise("ValueError")
       ELSE /\ cache' = IF cache = None THEN LRUCache(int(parts(l)[2]))
                         ELSE cache
            /\ Emit("OK")

(* INIT that leaves no cache behind for a capacity below 1 *)
Init_DropInvalid(l) ==
    /\ stripped(l) # <<>>
    /\ command(l) = INIT
    /\ IF Len(parts(l)) < 2
       THEN Raise("IndexError")
       ELSE IF ~IntParses(parts(l)[2])
       THEN Raise("ValueError")
       ELSE /\ cache' = IF int(parts(l)[2]) < 1 THEN None
                         ELSE LRUCache(int(parts(l)[2]))
            /\ Emit("OK")

(* if command == "INIT" *)
Init_(l) ==
    /\ stripped(l) # <<>>
    /\ command(l) = INIT
    /\ IF Len(parts(l)) < 2
       THEN Raise("IndexError")                  \* parts[1]
       ELSE IF ~IntParses(parts(l)[2])
       THEN Raise("ValueError")                  \* int(parts[1])
       ELSE /\ cache' = LRUCache(int(parts(l)[2]))
            /\ Emit("OK")

(* PUT that checks its arguments before it checks the cache *)
Put_ArgsFirst(l) ==
    /\ stripped(l) # <<>>
    /\ command(l) = PUT
    /\ IF Len(parts(l)) < 3
       THEN Emit("ERROR: PUT requires key and value") /\ UNCHANGED cache
       ELSE IF cache = None
       THEN Emit(ERR_NOT_INIT) /\ UNCHANGED cache
       ELSE /\ cache' = put(cache, parts(l)[2], parts(l)[3])
            /\ Emit("OK")

(* elif command == "PUT" *)
Put(l) ==
    /\ stripped(l) # <<>>
    /\ command(l) = PUT
    /\ IF cache = None
       THEN Emit(ERR_NOT_INIT) /\ UNCHANGED cache
       ELSE IF Len(parts(l)) < 3
       THEN Emit("ERROR: PUT requires key and value") /\ UNCHANGED cache
       ELSE /\ cache' = put(cache, parts(l)[2], parts(l)[3])
            /\ Emit("OK")

(* GET that reports a missing key as an error *)
Get_MissIsError(l) ==
    /\ stripped(l) # <<>>
    /\ command(l) = GET
    /\ UNCHANGED cache
    /\ IF cache = None
       THEN Emit(ERR_NOT_INIT)
       ELSE IF Len(parts(l)) < 2
       THEN Emit("ERROR: GET requires key")
       ELSE LET result == get(cache, parts(l)[2])
            IN  Emit(IF result # NoneStr THEN Text(result)
                     ELSE "ERROR: Key not found")

(* GET that stores a default under a missing key: setdefault(key, "") *)
Get_InsertOnMiss(l) ==
    /\ stripped(l) # <<>>
    /\ command(l) = GET
    /\ IF cache = None
       THEN Emit(ERR_NOT_INIT) /\ UNCHANGED cache
       ELSE IF Len(parts(l)) < 2
       THEN Emit("ERROR: GET requires key") /\ UNCHANGED cache
       ELSE LET result == get(cache, parts(l)[2])
            IN  /\ Emit(IF result # NoneStr THEN Text(result) ELSE "NULL")
                /\ cache' = IF result # NoneStr THEN cache
                            ELSE put(cache, parts(l)[2], <<>>)

(* elif command == "GET" *)
Get(l) ==
    /\ stripped(l) # <<>>
    /\ command(l) = GET
    /\ UNCHANGED cache
    /\ IF cache = None
       THEN Emit(ERR_NOT_INIT)
       ELSE IF Len(parts(l)) < 2
       THEN Emit("ERROR: GET requires key")
       ELSE LET result == get(cache, parts(l)[2])
            IN  Emit(IF result # NoneStr THEN Text(result) ELSE "NULL")

(* elif command == "SIZE" *)
Size(l) ==
    /\ stripped(l) # <<>>
    /\ command(l) = SIZE
    /\ UNCHANGED cache
    /\ IF cache = None
       THEN Emit(ERR_NOT_INIT)
       ELSE Emit(Text(str(size(cache))))

(* else branch that shows the whole line instead of its first word *)
Unknown_WholeLine(l) ==
    /\ stripped(l) # <<>>
    /\ command(l) \notin {INIT, PUT, GET, SIZE}
    /\ UNCHANGED cache
    /\ Emit("ERROR: Unknown command: " \o Text(stripped(l)))

(* else branch that asks for a cache first, as the other branches do *)
Unknown_CheckInit(l) ==
    /\ stripped(l) # <<>>
    /\ command(l) \notin {INIT, PUT, GET, SIZE}
    /\ UNCHANGED cache
    /\ IF cache = None
       THEN Emit(ERR_NOT_INIT)
       ELSE Emit("ERROR: Unknown command: " \o Text(command(l)))

(* else *)
Unknown(l) ==
    /\ stripped(l) # <<>>
    /\ command(l) \notin {INIT, PUT, GET, SIZE}
    /\ UNCHANGED cache
    /\ Emit("ERROR: Unknown command: " \o Text(command(l)))

(* one iteration of `for line in sys.stdin`, by the branch b it takes *)
Step(l, b) ==
    /\ pc = "loop"
    /\ CASE b = "blank" -> Blank(l)
         [] b = "INIT" -> Init_(l)
         [] b = "PUT" -> Put(l)
         [] b = "GET" -> Get(l)
         [] b = "SIZE" -> Size(l)
         [] b = "unknown" -> Unknown(l)
    /\ line' = l
    /\ History(l)

(* end of input: the for loop ends and main returns *)
Eof ==
    /\ pc = "loop"
    /\ pc' = "eof"
    /\ UNCHANGED <<cache, stdin, nread, line, out, initDone, initCap, lastPut, prevPut>>

---------------------------------------------------------------------------
(* Interactive session: any line of Lines may arrive next *)

Init ==
    /\ cache = None
    /\ pc = "loop"
    /\ stdin = <<>>
    /\ nread = 0
    /\ line = <<>>
    /\ out = <<>>
    /\ initDone = FALSE
    /\ initCap = 0
    /\ lastPut = EmptyDict
    /\ prevPut = <<>>

ReadBlank == \E l \in Lines : Step(l, "blank") /\ UNCHANGED <<stdin, nread>>
ReadInit == \E l \in Lines : Step(l, "INIT") /\ UNCHANGED <<stdin, nread>>
ReadPut == \E l \in Lines : Step(l, "PUT") /\ UNCHANGED <<stdin, nread>>
ReadGet == \E l \in Lines : Step(l, "GET") /\ UNCHANGED <<stdin, nread>>
ReadSize == \E l \in Lines : Step(l, "SIZE") /\ UNCHANGED <<stdin, nread>>
ReadUnknown == \E l \in Lines : Step(l, "unknown") /\ UNCHANGED <<stdin, nread>>
ReadEof == Eof

Next ==
    \/ ReadBlank
    \/ ReadInit
    \/ ReadPut
    \/ ReadGet
    \/ ReadSize
    \/ ReadUnknown
    \/ ReadEof

Spec == Init /\ [][Next]_vars

---------------------------------------------------------------------------
(* Prepared session: the program reads the lines of stdin in order *)

ScriptInit ==
    /\ cache = None
    /\ pc = "loop"
    /\ stdin \in Scripts
    /\ nread = 0
    /\ line = <<>>
    /\ out = <<>>
    /\ initDone = FALSE
    /\ initCap = 0
    /\ lastPut = EmptyDict
    /\ prevPut = <<>>

(* the loop reads the next line of stdin and takes branch b with it *)
Feed(b) ==
    /\ nread < Len(stdin)
    /\ Step(stdin[nread + 1], b)
    /\ nread' = nread + 1
    /\ UNCHANGED stdin

FeedBlank == Feed("blank")
FeedInit == Feed("INIT")
FeedPut == Feed("PUT")
FeedGet == Feed("GET")
FeedSize == Feed("SIZE")
FeedUnknown == Feed("unknown")
FeedEof == nread = Len(stdin) /\ Eof

ScriptNext ==
    \/ FeedBlank
    \/ FeedInit
    \/ FeedPut
    \/ FeedGet
    \/ FeedSize
    \/ FeedUnknown
    \/ FeedEof

SpecScript == ScriptInit /\ [][ScriptNext]_vars

---------------------------------------------------------------------------
(* The starter program (compiled_starters/python/app/main.py), as shipped: *)
(* the bodies of the LRUCache methods are commented out, main neither      *)
(* limits the split nor checks the number of arguments.  Its first         *)
(* statement prints a log line to stderr, which is not part of `out`.      *)

(* LRUCache.__init__ of the starter: an object without attributes *)
StarterLRUCache(capacity) == [class |-> "LRUCache"]

(* LRUCache.get of the starter: the body is a docstring, the call returns None *)
starter_get(self, key) == NoneStr

(* LRUCache.put of the starter: the object after the call, unchanged *)
starter_put(self, key, value) == self

(* what print(cache.size()) of the starter shows: size() returns None *)
starter_size_text(self) == "None"

(* parts = line.split(), computed once for each line of the input *)
StarterParts == [l \in AllLines |-> split(strip(l), -1)]

starter_parts(l) == StarterParts[l]

starter_command(l) == starter_parts(l)[1]

StarterInitCmd(l) ==
    /\ stripped(l) # <<>>
    /\ starter_command(l) = INIT
    /\ IF Len(starter_parts(l)) < 2
       THEN Raise("IndexError")                  \* parts[1]
       ELSE IF ~IntParses(starter_parts(l)[2])
       THEN Raise("ValueError")                  \* int(parts[1])
       ELSE /\ cache' = StarterLRUCache(int(starter_parts(l)[2]))
            /\ Emit("OK")

StarterPut(l) ==
    /\ stripped(l) # <<>>
    /\ starter_command(l) = PUT
    /\ IF cache = None
       THEN Emit(ERR_NOT_INIT) /\ UNCHANGED cache
       ELSE IF Len(starter_parts(l)) < 3
       THEN Raise("IndexError")                  \* parts[1] or parts[2]
       ELSE /\ cache' = starter_put(cache, starter_parts(l)[2],
                                    starter_parts(l)[3])
            /\ Emit("OK")

StarterGet(l) ==
    /\ stripped(l) # <<>>
    /\ starter_command(l) = GET
    /\ IF cache = None
       THEN Emit(ERR_NOT_INIT) /\ UNCHANGED cache
       ELSE IF Len(starter_parts(l)) < 2
       THEN Raise("IndexError")                  \* parts[1]
       ELSE LET result == starter_get(cache, starter_parts(l)[2])
            IN  /\ Emit(IF result = NoneStr THEN "NULL" ELSE Text(result))
                /\ UNCHANGED cache

StarterSize(l) ==
    /\ stripped(l) # <<>>
    /\ starter_command(l) = SIZE
    /\ UNCHANGED cache
    /\ IF cache = None
       THEN Emit(ERR_NOT_INIT)
       ELSE Emit(starter_size_text(cache))

StarterUnknown(l) ==
    /\ stripped(l) # <<>>
    /\ starter_command(l) \notin {INIT, PUT, GET, SIZE}
    /\ UNCHANGED cache
    /\ Emit("ERROR: Unknown command: " \o Text(starter_command(l)))

(* one iteration of the starter's loop, by the branch b it takes *)
StarterStep(l, b) ==
    /\ pc = "loop"
    /\ CASE b = "blank" -> Blank(l)
         [] b = "INIT" -> StarterInitCmd(l)
         [] b = "PUT" -> StarterPut(l)
         [] b = "GET" -> StarterGet(l)
         [] b = "SIZE" -> StarterSize(l)
         [] b = "unknown" -> StarterUnknown(l)
    /\ line' = l
    /\ History(l)

StarterReadBlank ==
    \E l \in Lines : StarterStep(l, "blank") /\ UNCHANGED <<stdin, nread>>
StarterReadInit ==
    \E l \in Lines : StarterStep(l, "INIT") /\ UNCHANGED <<stdin, nread>>
StarterReadPut ==
    \E l \in Lines : StarterStep(l, "PUT") /\ UNCHANGED <<stdin, nread>>
StarterReadGet ==
    \E l \in Lines : StarterStep(l, "GET") /\ UNCHANGED <<stdin, nread>>
StarterReadSize ==
    \E l \in Lines : StarterStep(l, "SIZE") /\ UNCHANGED <<stdin, nread>>
StarterReadUnknown ==
    \E l \in Lines : StarterStep(l, "unknown") /\ UNCHANGED <<stdin, nread>>

StarterNext ==
    \/ StarterReadBlank
    \/ StarterReadInit
    \/ StarterReadPut
    \/ StarterReadGet
    \/ StarterReadSize
    \/ StarterReadUnknown
    \/ ReadEof

SpecStarter == Init /\ [][StarterNext]_vars

---------------------------------------------------------------------------
(* Properties *)

(* the session is initialized and the loop is still reading *)
Ready == pc = "loop" /\ cache # None

(* `line` is a SIZE command *)
SizeAsked == line \in {SizeLine, SizeArgLine}

(* `line` is a well-formed GET of key *)
GetAsked(key) == line \in GetForms(key)

(* the number of distinct keys put since the most recent INIT *)
KeysPut == Cardinality(DOMAIN lastPut)

(* C1 as the specification states it: after INIT N with N >= 1, the value *)
(* SIZE reports is never greater than N.                                   *)
C1_SizeWithinCapacity ==
    (pc = "loop" /\ initDone /\ initCap >= 1 /\ SizeAsked)
        => \E n \in 0..initCap : out = <<Text(str(n))>>

(* C1, amended: after INIT N with N >= 1, the value SIZE reports is never  *)
(* greater than the number of distinct keys put since that INIT (which N   *)
(* does not bound).                                                        *)
C1_SizeWithinKeysPut ==
    (pc = "loop" /\ initDone /\ initCap >= 1 /\ SizeAsked)
        => \E n \in 0..KeysPut : out = <<Text(str(n))>>

(* SIZE has reported more entries than the capacity given to INIT *)
C1_Witness ==
    /\ pc = "loop" /\ initDone /\ initCap >= 1 /\ SizeAsked
    /\ KeysPut > initCap
    /\ out = <<Text(str(KeysPut))>>

(* in a session INIT N, N+1 puts of distinct keys, N+1 gets: the capacity  *)
(* and the number of the get answered last (0 before the first get)        *)
FillCap == (Len(stdin) - 3) \div 2
FillGot == nread - (FillCap + 2)

(* C2 as the specification states it: after INIT N and puts of the N+1     *)
(* distinct keys k1..k(N+1), get(k1) reports absent and get(ki) returns    *)
(* the value put for ki, for i in 2..N+1.                                  *)
C2_OldestEvicted ==
    (stdin \in FillScripts /\ FillGot >= 1)
        => /\ pc \in {"loop", "eof"}
           /\ out = <<IF FillGot = 1 THEN "NULL" ELSE Text(str(FillGot))>>

(* C2, amended: after INIT N and puts of the N+1 distinct keys, get(ki)    *)
(* returns the value put for ki for every i in 1..N+1, k1 included.        *)
C2_AllKeysHit ==
    (stdin \in FillScripts /\ FillGot >= 1)
        => /\ pc \in {"loop", "eof"}
           /\ out = <<Text(str(FillGot))>>

(* the get of k1 after N+1 puts was answered with the value put for k1 *)
C2_Witness ==
    /\ stdin \in FillScripts
    /\ FillGot = 1
    /\ size(cache) = FillCap + 1
    /\ out = <<"1">>

(* the end-to-end session of the specification *)
Scenario == TouchScript(2, <<"a">>, <<"b">>, <<"c">>)

(* C3 as the specification states it: INIT 2, PUT a 1, PUT b 2, GET a,     *)
(* PUT c 3, GET b, GET c, SIZE answer OK, OK, OK, 1, OK, NULL, 3, 2.       *)
C3_ScenarioEvictsB ==
    (stdin = Scenario /\ nread >= 1)
        => /\ pc \in {"loop", "eof"}
           /\ out = << <<"OK", "OK", "OK", "1", "OK", "NULL", "3", "2">>[nread] >>

(* C3, amended: that session answers OK, OK, OK, 1, OK, 2, 3, 3: the put   *)
(* of c evicts no entry.                                                   *)
C3_ScenarioKeepsAll ==
    (stdin = Scenario /\ nread >= 1)
        => /\ pc \in {"loop", "eof"}
           /\ out = << <<"OK", "OK", "OK", "1", "OK", "2", "3", "3">>[nread] >>

(* the session was read to its end and SIZE answered 3 *)
C3_Witness ==
    /\ stdin = Scenario
    /\ nread = 8
    /\ out = <<"3">>

(* C4: put(k, v) immediately followed by get(k) returns v, in every Ready  *)
(* state, also when k held another value before.                           *)
C4_PutThenGet ==
    (pc = "loop" /\ prevPut # <<>> /\ GetAsked(prevPut[1]))
        => out = <<Text(prevPut[2])>>

(* a key was put twice with different values and the get that followed     *)
(* the second put returned the second value, the cache being over capacity *)
C4_Witness ==
    /\ pc = "loop" /\ prevPut # <<>> /\ GetAsked(prevPut[1])
    /\ out = <<Text(prevPut[2])>>
    /\ KeysPut > initCap /\ initCap >= 1

(* C5: get of a key that was not put since the most recent INIT answers    *)
(* NULL, whatever was done to other keys.                                  *)
C5_NeverPutIsAbsent ==
    \A k \in AllKeys :
        (pc = "loop" /\ initDone /\ GetAsked(k) /\ k \notin DOMAIN lastPut)
            => out = <<"NULL">>

(* other keys were put and the get of a key never put answered NULL *)
C5_Witness ==
    \E k \in Keys :
        /\ pc = "loop" /\ initDone /\ GetAsked(k)
        /\ k \notin DOMAIN lastPut
        /\ KeysPut >= 2
        /\ out = <<"NULL">>

(* C6: a put for a key that is present leaves the size and the set of      *)
(* keys unchanged and changes the value of no other key.                   *)
C6_OverwriteKeepsSize ==
    [][ ( /\ Ready
          /\ pc' = "loop"
          /\ line' \in AllLines
          /\ PutAsked[line'] # <<>>
          /\ PutAsked[line'][1] \in DOMAIN cache.cache )
        => /\ size(cache') = size(cache)
           /\ DOMAIN cache'.cache = DOMAIN cache.cache
           /\ \A k \in DOMAIN cache.cache :
                  k # PutAsked[line'][1] => cache'.cache[k] = cache.cache[k]
      ]_vars

(* a key was put again right after its put, with another value, among      *)
(* other keys: the cache holds the new value and still holds the others    *)
C6_Witness ==
    /\ Ready /\ prevPut # <<>> /\ JustPut # <<>>
    /\ JustPut[1] = prevPut[1]
    /\ JustPut[2] # prevPut[2]
    /\ size(cache) >= 2
    /\ get(cache, JustPut[1]) = JustPut[2]

(* C7: put removes no entry: every key put since the most recent INIT is   *)
(* present with the value of its latest put, and the size is the number of *)
(* distinct keys put since that INIT, whatever the capacity.               *)
C7_NoEviction ==
    (initDone /\ pc = "loop")
        => /\ \A k \in DOMAIN lastPut : get(cache, k) = lastPut[k]
           /\ size(cache) = KeysPut

(* more distinct keys than the capacity were put and all are held *)
C7_Witness ==
    /\ initDone /\ pc = "loop"
    /\ initCap >= 1
    /\ KeysPut > initCap
    /\ size(cache) = KeysPut

(* the GET, PUT and SIZE lines of the input, with and without arguments *)
CacheCommandLines ==
    UNION {PutForms(k, v) : k \in AllKeys, v \in AllValues}
      \cup UNION {GetForms(k) : k \in AllKeys}
      \cup {SizeLine, SizeArgLine}
      \cup {PUT \o NL, PUT \o SP \o <<KeyPool[1]>> \o NL, GET \o NL}

(* C8: before any INIT, every GET, PUT and SIZE line is answered with      *)
(* 'ERROR: Cache not initialized', no cache is created and the loop goes   *)
(* on.                                                                     *)
C8_UninitializedAccess ==
    (~initDone /\ line \in CacheCommandLines)
        => /\ out = <<ERR_NOT_INIT>>
           /\ cache = None
           /\ pc \in {"loop", "eof"}

(* a PUT without arguments, before any INIT, was answered with that error *)
C8_Witness ==
    /\ ~initDone
    /\ line = PUT \o NL
    /\ out = <<ERR_NOT_INIT>>
    /\ pc = "loop"

(* C9: no error is fatal: whatever the line, the loop answers and goes on  *)
(* reading; main is never left by an exception.                            *)
C9_NoErrorIsFatal == pc \in {"loop", "eof"}

(* C10: the session starts without a cache, has one from the first INIT    *)
(* on and never loses it; once an INIT was read no line is answered with   *)
(* 'ERROR: Cache not initialized'.                                         *)
C10_ReadyForGood ==
    /\ (cache = None) <=> ~initDone
    /\ initDone => out # <<ERR_NOT_INIT>>

(* after an INIT, a get was answered NULL rather than with the error *)
C10_Witness ==
    /\ initDone /\ pc = "loop" /\ cache # None
    /\ \E k \in Keys : GetAsked(k)
    /\ out = <<"NULL">>

(* C11: an INIT read in the Ready state is answered OK and leaves an empty *)
(* cache with the new capacity; a SIZE read right after an INIT is         *)
(* answered 0 and a GET read right after it is answered NULL, for every    *)
(* key.                                                                    *)
C11_ReInitReplaces ==
    [][ /\ ( /\ Ready
             /\ pc' # "eof"
             /\ line' \in AllLines
             /\ InitAsked[line'] )
          => /\ pc' = "loop"
             /\ out' = <<"OK">>
             /\ cache' # None
             /\ cache'.capacity = CapAsked[line']
             /\ DOMAIN cache'.cache = {}
        /\ ( /\ Ready
             /\ line \in AllLines
             /\ InitAsked[line]
             /\ pc' = "loop" )
          => /\ line' \in {SizeLine, SizeArgLine} => out' = <<"0">>
             /\ \A k \in AllKeys : line' \in GetForms(k) => out' = <<"NULL">>
      ]_vars

(* an INIT was read right after a PUT of an initialized session: it was    *)
(* answered OK and the cache, with the new capacity, is empty and does not *)
(* hold the key of that PUT                                                *)
C11_Witness ==
    /\ Ready
    /\ line \in AllLines /\ InitAsked[line]
    /\ prevPut # <<>>
    /\ out = <<"OK">>
    /\ cache.capacity = initCap
    /\ size(cache) = 0
    /\ get(cache, prevPut[1]) = NoneStr

(* C12: a get of a key that is absent leaves the cache as it was (keys,    *)
(* values, size, capacity) and is answered NULL, so that what follows it   *)
(* is answered as if the get had not been read.                            *)
C12_MissChangesNothing ==
    [][ ( /\ Ready
          /\ pc' # "eof"
          /\ line' \in AllLines
          /\ GetKeyAsked[line'] # <<>>
          /\ GetKeyAsked[line'] \notin DOMAIN cache.cache )
        => /\ cache' = cache
           /\ pc' = "loop"
           /\ out' = <<"NULL">>
      ]_vars

(* a get of a key not held was answered NULL by a cache that still holds   *)
(* exactly the keys put, the missing key not among them                    *)
C12_Witness ==
    /\ Ready
    /\ line \in AllLines
    /\ GetKeyAsked[line] # <<>>
    /\ GetKeyAsked[line] \notin DOMAIN lastPut
    /\ out = <<"NULL">>
    /\ KeysPut >= 2
    /\ cache.cache = lastPut

(* C13: SIZE is answered with the number of distinct keys the cache holds  *)
(* (0 right after INIT) and leaves the cache as it was.                    *)
C13_SizeCountsAndKeeps ==
    [][ /\ ( /\ Ready
             /\ pc' # "eof"
             /\ line' \in {SizeLine, SizeArgLine} )
          => /\ cache' = cache
             /\ pc' = "loop"
             /\ out' = <<Text(str(Cardinality(DOMAIN cache.cache)))>>
        /\ ( /\ pc = "loop"
             /\ line \in AllLines
             /\ InitAsked[line]
             /\ pc' # "eof"
             /\ line' \in {SizeLine, SizeArgLine} )
          => out' = <<"0">>
      ]_vars

(* SIZE was answered 2 by a cache that holds the two keys put, with the    *)
(* values put                                                              *)
C13_Witness ==
    /\ Ready
    /\ SizeAsked
    /\ KeysPut = 2
    /\ out = <<"2">>
    /\ cache.cache = lastPut

(* the PUT lines with less than a key and a value, the GET line with no key *)
ShortPutLines == {PUT \o NL, PUT \o SP \o <<KeyPool[1]>> \o NL}
ShortGetLines == {GET \o NL}

(* C14: on an initialized cache a PUT line with less than a key and a      *)
(* value is answered 'ERROR: PUT requires key and value' and a GET line    *)
(* with no key 'ERROR: GET requires key'; the cache is unchanged and the   *)
(* loop goes on.                                                           *)
C14_MissingArguments ==
    [][ /\ (Ready /\ pc' # "eof" /\ line' \in ShortPutLines)
          => /\ out' = <<"ERROR: PUT requires key and value">>
             /\ cache' = cache
             /\ pc' = "loop"
        /\ (Ready /\ pc' # "eof" /\ line' \in ShortGetLines)
          => /\ out' = <<"ERROR: GET requires key">>
             /\ cache' = cache
             /\ pc' = "loop"
      ]_vars

(* the first word of each line of UnknownLines, as stdout shows it *)
UnknownWord ==
    [l \in UnknownLines |->
        IF l = <<"D", "E", "L">> \o SP \o <<KeyPool[1]>> \o NL THEN "DEL"
        ELSE "get"]

(* C15 as the specification states it: before any INIT every GET, PUT and  *)
(* SIZE line and every line with an unknown command is answered 'ERROR:    *)
(* Cache not initialized', and the loop goes on.                           *)
C15_AllButInitRefused ==
    (~initDone /\ line \in CacheCommandLines \cup UnknownLines)
        => /\ out = <<ERR_NOT_INIT>>
           /\ pc \in {"loop", "eof"}

(* C15, amended: before any INIT every GET, PUT and SIZE line is answered  *)
(* 'ERROR: Cache not initialized'; a line with an unknown command is       *)
(* answered 'ERROR: Unknown command: <token>' then too; the loop goes on.  *)
C15_UnknownStaysUnknown ==
    /\ (~initDone /\ line \in CacheCommandLines)
         => /\ out = <<ERR_NOT_INIT>>
            /\ pc \in {"loop", "eof"}
    /\ (~initDone /\ line \in UnknownLines)
         => /\ out = <<"ERROR: Unknown command: " \o UnknownWord[line]>>
            /\ pc \in {"loop", "eof"}

(* before any INIT, DEL a was answered 'ERROR: Unknown command: DEL' *)
C15_Witness ==
    /\ ~initDone
    /\ pc = "loop"
    /\ cache = None
    /\ line \in UnknownLines
    /\ out = <<"ERROR: Unknown command: DEL">>

(* C16: a line whose first word is not INIT, PUT, GET or SIZE is answered  *)
(* 'ERROR: Unknown command: ' followed by that word; the cache, or its     *)
(* absence, is unchanged and the loop goes on.                             *)
C16_UnknownCommand ==
    [][ (pc = "loop" /\ pc' # "eof" /\ line' \in UnknownLines)
        => /\ out' = <<"ERROR: Unknown command: " \o UnknownWord[line']>>
           /\ cache' = cache
           /\ pc' = "loop"
      ]_vars

(* a cache holding entries was given `get a` in lower case: the line was   *)
(* answered as an unknown command and the entries are still there          *)
C16_Witness ==
    /\ Ready
    /\ line \in UnknownLines
    /\ out = <<"ERROR: Unknown command: get">>
    /\ KeysPut >= 1
    /\ cache.cache = lastPut

(* C17: a blank line is answered with nothing and changes nothing; every   *)
(* other line is answered with exactly one line before the next is read,   *)
(* so that the i-th response belongs to the i-th non-blank line.           *)
C17_OneResponsePerLine ==
    [][ /\ (pc = "loop" /\ pc' # "eof" /\ line' \in BlankLines)
          => /\ out' = <<>>
             /\ cache' = cache
             /\ pc' = "loop"
        /\ (pc = "loop" /\ pc' # "eof" /\ line' \in AllLines \ BlankLines)
          => /\ Len(out') = 1
             /\ pc' = "loop"
      ]_vars

(* the value v is made of several words separated by spaces *)
SeveralWords(v) == \E i \in 1..Len(v) : v[i] = " "

(* C18: when the text after the key of a PUT line is made of several       *)
(* words, the value stored is the whole rest of the line: a GET of the key *)
(* read right after it is answered with all the words.                     *)
C18_ValueIsRestOfLine ==
    ( /\ pc = "loop"
      /\ prevPut # <<>>
      /\ SeveralWords(prevPut[2])
      /\ GetAsked(prevPut[1]) )
        => out = <<Text(prevPut[2])>>

(* C19: an INIT with a negative capacity is rejected: it is not answered   *)
(* OK and leaves no cache that accepts the puts that follow it.            *)
C19_NegativeCapacityRejected ==
    /\ (line \in AllLines /\ InitAsked[line] /\ CapAsked[line] < 0)
         => out # <<"OK">>
    /\ (initDone /\ initCap < 0 /\ JustPut # <<>>)
         => out # <<"OK">>

(* the value made of the four letters NULL *)
NullText == <<"N", "U", "L", "L">>

(* C20 as the specification states it: on an initialized cache GET k is    *)
(* answered NULL if and only if k is absent.                               *)
C20_NullIffAbsent ==
    (pc = "loop" /\ initDone /\ line \in AllLines /\ GetKeyAsked[line] # <<>>)
        => (out = <<"NULL">> <=> GetKeyAsked[line] \notin DOMAIN lastPut)

(* C20, amended: on an initialized cache GET k is answered NULL if k is    *)
(* absent and with the stored value if k is present; a present key is      *)
(* answered NULL exactly when the value stored for it is the text NULL.    *)
C20_NullOrStoredValue ==
    (pc = "loop" /\ initDone /\ line \in AllLines /\ GetKeyAsked[line] # <<>>)
        => LET k == GetKeyAsked[line]
           IN  /\ k \notin DOMAIN lastPut => out = <<"NULL">>
               /\ k \in DOMAIN lastPut =>
                    /\ out = <<Text(lastPut[k])>>
                    /\ out = <<"NULL">> <=> lastPut[k] = NullText

(* a key holding the value NULL was got and the answer was NULL *)
C20_Witness ==
    /\ pc = "loop" /\ initDone
    /\ line \in AllLines /\ GetKeyAsked[line] # <<>>
    /\ GetKeyAsked[line] \in DOMAIN lastPut
    /\ lastPut[GetKeyAsked[line]] = NullText
    /\ get(cache, GetKeyAsked[line]) = NullText
    /\ out = <<"NULL">>

====
